---- MODULE Spec2Model ----
(***************************************************************************)
(* Model of the extension loading pipeline of                              *)
(* src/DesktopApp/browser/extension_util.cc: path classification, the      *)
(* thread-affine manifest loader, the engine LoadExtension call and the    *)
(* registration of resource providers, running on the three CEF browser    *)
(* threads TID_UI, TID_FILE and TID_IO, each with its own task queue.      *)
(*                                                                         *)
(* Strings of the program that the code takes apart (paths, origins) are   *)
(* sequences of one-character strings; file contents and log messages,     *)
(* which the code only passes along, are TLA+ strings.                     *)
(***************************************************************************)
EXTENDS Integers, Sequences, FiniteSets, TLC

\* Number of calls of the public entry points made by the embedding application.
MaxReq == 2

VARIABLES
  os_win,         \* build: OS_WIN defined (otherwise OS_POSIX)
  resources_dir,  \* what CefGetPath(PK_DIR_RESOURCES) yields (<<>>: failure or empty)
  req,            \* the calls made so far: [fn, path, id, from]
  hist,           \* per call, what the code did for it, in order
  queue,          \* per thread, the tasks posted to it with CefPostTask
  nposted,        \* per (origin, target), number of tasks posted
  ran,            \* per (origin, target), the stamps of the tasks run, in order
  loaded,         \* the calls of request_context->LoadExtension, in order
  registry,       \* the providers of the resource manager, in order
  aborted,        \* a DCHECK failed and ended the process (a build with DCHECKs)
  pure,           \* the calls of the functions without effects: [fn, arg, ret]
  delegates_,     \* ClientAppBrowser::delegates_, in the order of iteration
  print_handler_, \* ClientAppBrowser::print_handler_
  events          \* the CefApp events ClientAppBrowser has handled, in order

vars == <<os_win, resources_dir, req, hist, queue, nposted, ran,
          loaded, registry, aborted, pure, delegates_, print_handler_, events>>

(***************************************************************************)
(* Threads.                                                                *)
(***************************************************************************)
Ctx == {"UI", "FILE", "IO"}
TID_UI == "UI"
TID_FILE == "FILE"
TID_IO == "IO"

(***************************************************************************)
(* Strings.                                                                *)
(***************************************************************************)
\* std::string::find(p) == 0
StartsWith(s, p) == Len(p) <= Len(s) /\ SubSeq(s, 1, Len(p)) = p

\* std::replace(begin, end, a, b)
Replace(s, a, b) == [i \in 1..Len(s) |-> IF s[i] = a THEN b ELSE s[i]]

set_page_color ==
  <<"s", "e", "t", "_", "p", "a", "g", "e", "_", "c", "o", "l", "o", "r">>

\* static const char* extensions[] = {"set_page_color"};
extensions == <<set_page_color>>

extensions_slash == <<"e", "x", "t", "e", "n", "s", "i", "o", "n", "s", "/">>

chrome_extension ==
  <<"c", "h", "r", "o", "m", "e", "-", "e", "x", "t", "e", "n", "s", "i", "o",
    "n", ":", "/", "/">>

manifest_json ==
  <<"m", "a", "n", "i", "f", "e", "s", "t", ".", "j", "s", "o", "n">>

\* file_util::kPathSep
kPathSep == IF os_win THEN "\\" ELSE "/"

GetResourcesPath ==
  IF resources_dir # <<>> THEN resources_dir \o <<kPathSep>> ELSE <<>>

\* GetInternalPath that leaves the resources path in place.
GetInternalPath_NoStrip(extension_path) ==
  IF os_win THEN Replace(extension_path, "\\", "/") ELSE extension_path

GetInternalPath(extension_path) ==
  LET resources_path == GetResourcesPath
      internal_path ==
        IF resources_path # <<>> /\ StartsWith(extension_path, resources_path)
        THEN SubSeq(extension_path, Len(resources_path) + 1, Len(extension_path))
        ELSE extension_path
  IN  IF os_win THEN Replace(internal_path, "\\", "/") ELSE internal_path

\* IsInternalExtension that takes any path that starts with an allowlisted
\* name.
IsInternalExtension_NoSlash(extension_path) ==
  LET internal_path == GetInternalPath(extension_path)
  IN  \E i \in 1..Len(extensions) : StartsWith(internal_path, extensions[i])

IsInternalExtension(extension_path) ==
  LET internal_path == GetInternalPath(extension_path)
  IN  \E i \in 1..Len(extensions) :
        \/ internal_path = extensions[i]
        \/ StartsWith(internal_path, extensions[i] \o <<"/">>)

GetInternalExtensionResourcePath(extension_path) ==
  extensions_slash \o GetInternalPath(extension_path)

\* GetExtensionOrigin without the closing slash.
GetExtensionOrigin_NoSlash(extension_id) == chrome_extension \o extension_id

GetExtensionOrigin(extension_id) ==
  chrome_extension \o extension_id \o <<"/">>

\* file_util::JoinPath, as the specification gives it: path + "/" + name
JoinPath(path1, path2) == path1 \o <<"/">> \o path2

\* GetExtensionResourcePath(extension_path, internal): the path to read the
\* resources of the extension from, and what it stores through internal.
GetExtensionResourcePath(extension_path) ==
  [ret |-> IF IsInternalExtension(extension_path)
           THEN GetInternalExtensionResourcePath(extension_path)
           ELSE extension_path,
   internal |-> IF IsInternalExtension(extension_path)
                THEN "true" ELSE "false"]

\* A CefDictionaryValue is the set of its entries [key, type, str, dict]: str
\* is the string of a VTYPE_STRING entry and dict the dictionary of a
\* VTYPE_DICTIONARY entry.
\* dict->GetDictionary(key): NULL unless the key holds a dictionary
DictGetDictionary(dict, key) ==
  IF \E e \in dict : e.key = key /\ e.type = "VTYPE_DICTIONARY"
  THEN [null |-> FALSE,
        dict |-> (CHOOSE e \in dict :
                    e.key = key /\ e.type = "VTYPE_DICTIONARY").dict]
  ELSE [null |-> TRUE, dict |-> {}]

\* dict->GetString(key): empty unless the key holds a string
DictGetString(dict, key) ==
  IF \E e \in dict : e.key = key /\ e.type = "VTYPE_STRING"
  THEN (CHOOSE e \in dict : e.key = key /\ e.type = "VTYPE_STRING").str
  ELSE <<>>

\* GetExtensionURL that returns the popup without the origin.
GetExtensionURL_NoOrigin(extension) ==
  LET browser_action == DictGetDictionary(extension.manifest, "browser_action")
      default_popup == DictGetString(browser_action.dict, "default_popup")
  IN  IF ~browser_action.null /\ default_popup # <<>>
      THEN default_popup
      ELSE <<>>

\* An extension is [id, path, manifest], what GetIdentifier, GetPath and
\* GetManifest give.
GetExtensionURL(extension) ==
  LET browser_action == DictGetDictionary(extension.manifest, "browser_action")
      default_popup == DictGetString(browser_action.dict, "default_popup")
  IN  IF ~browser_action.null /\ default_popup # <<>>
      THEN GetExtensionOrigin(extension.id) \o default_popup
      ELSE <<>>

\* The path returned and what is stored through internal ("unset": nothing).
GetExtensionIconPath(extension) ==
  LET browser_action == DictGetDictionary(extension.manifest, "browser_action")
      default_icon == DictGetString(browser_action.dict, "default_icon")
  IN  IF ~browser_action.null /\ default_icon # <<>>
      THEN GetExtensionResourcePath(JoinPath(extension.path, default_icon))
      ELSE [ret |-> <<>>, internal |-> "unset"]

(***************************************************************************)
(* Values and steps.                                                       *)
(*                                                                         *)
(* A function of the program, run on thread c for call i, yields the       *)
(* sequence of the steps it takes, in order: [ev, fn, ctx, arg] is step ev *)
(* taken by function fn on thread ctx with the arguments arg.              *)
(***************************************************************************)
\* A null CefRefPtr (the NULL manifest).
NullPtr == [type |-> "NULL", json |-> ""]

\* A callback that is not bound (the tasks that carry none).
NoCallback == [fn |-> "", path |-> <<>>]

Step(ev, fn, c, arg) == <<[ev |-> ev, fn |-> fn, ctx |-> c, arg |-> arg]>>

\* DCHECK(cond) in fn: no step when cond holds, else the step of a failed
\* check (which Runs below reads as the build does).
DCHECK(cond, fn, c) ==
  IF cond THEN <<>> ELSE Step("DCHECK", fn, c, <<>>)

\* CefCurrentlyOn(tid), evaluated on thread c
CefCurrentlyOn(c, tid) == c = tid

\* CefPostTask(tid, base::Bind(fn, path, id, callback, manifest)) on thread c
CefPostTask(c, tid, fn, path, id, callback, manifest) ==
  Step("post", fn, c, [to |-> tid, path |-> path, id |-> id,
                       callback |-> callback, manifest |-> manifest])

\* CefParseJSONAndReturnError(contents, JSON_PARSER_RFC, error_code, error_msg)
\* on the manifest contents of the model.
CefParseJSONAndReturnError(contents) ==
  CASE contents = "{}" ->
         [value |-> [type |-> "VTYPE_DICTIONARY", json |-> contents],
          error_msg |-> ""]
    [] contents = "[]" ->
         [value |-> [type |-> "VTYPE_LIST", json |-> contents],
          error_msg |-> ""]
    [] OTHER ->
         [value |-> NullPtr, error_msg |-> "Line: 1, column: 1, Syntax error."]

\* value->GetDictionary(): the dictionary of a dictionary value, else NULL
GetDictionary(value) ==
  IF value.type = "VTYPE_DICTIONARY" THEN value ELSE NullPtr

(***************************************************************************)
(* The functions of extension_util.cc, run on thread c.                    *)
(***************************************************************************)
\* request_context->LoadExtension(extension_path, manifest, handler) in fn
EngineLoadExtension(c, fn, extension_path, manifest) ==
  Step("engine", fn, c, [path |-> extension_path, manifest |-> manifest])

LoadExtensionWithManifest(c, extension_path, manifest) ==
  DCHECK(CefCurrentlyOn(c, TID_UI), "LoadExtensionWithManifest", c)
  \o EngineLoadExtension(c, "LoadExtensionWithManifest", extension_path,
                         manifest)

\* callback.Run(manifest) with a continuation that gives up on a null manifest.
RunCallback_SkipNull(c, callback, manifest) ==
  Step("callback", callback.fn, c, [manifest |-> manifest])
  \o (IF callback.fn = "LoadExtensionWithManifest" /\ manifest # NullPtr
      THEN LoadExtensionWithManifest(c, callback.path, manifest)
      ELSE <<>>)

\* callback.Run(manifest)
RunCallback(c, callback, manifest) ==
  Step("callback", callback.fn, c, [manifest |-> manifest])
  \o (IF callback.fn = "LoadExtensionWithManifest"
      THEN LoadExtensionWithManifest(c, callback.path, manifest)
      ELSE <<>>)

\* RunManifestCallback without the test of the thread.
RunManifestCallback_NoHop(c, callback, manifest) ==
  Step("enter", "RunManifestCallback", c, <<>>)
  \o RunCallback(c, callback, manifest)

\* RunManifestCallback without the return after CefPostTask.
RunManifestCallback_NoReturn(c, callback, manifest) ==
  Step("enter", "RunManifestCallback", c, <<>>)
  \o (IF ~CefCurrentlyOn(c, TID_UI)
      THEN CefPostTask(c, TID_UI, "RunManifestCallback", <<>>, <<>>,
                       callback, manifest)
      ELSE <<>>)
  \o RunCallback(c, callback, manifest)

\* RunManifestCallback that binds no manifest to the task it posts.
RunManifestCallback_UnboundManifest(c, callback, manifest) ==
  Step("enter", "RunManifestCallback", c, <<>>)
  \o (IF ~CefCurrentlyOn(c, TID_UI)
      THEN CefPostTask(c, TID_UI, "RunManifestCallback", <<>>, <<>>,
                       callback, NullPtr)
      ELSE RunCallback(c, callback, manifest))

RunManifestCallback(c, callback, manifest) ==
  Step("enter", "RunManifestCallback", c, <<>>)
  \o (IF ~CefCurrentlyOn(c, TID_UI)
      THEN CefPostTask(c, TID_UI, "RunManifestCallback", <<>>, <<>>,
                       callback, manifest)
      ELSE RunCallback(c, callback, manifest))

\* ReadManifest without the test of the type of the parsed value.
ReadManifest_NoTypeCheck(c, extension_path, callback, res) ==
  LET manifest_path == GetInternalExtensionResourcePath(
                         JoinPath(extension_path, manifest_json))
      read == Step("read", "GetInternalManifest", c,
                   [path |-> manifest_path, res |-> res])
  IN  IF ~res.ok \/ res.contents = ""
      THEN read
           \o Step("LOG", "GetInternalManifest", c,
                   <<"Failed to load manifest from ", manifest_path>>)
           \o RunManifestCallback(c, callback, NullPtr)
      ELSE
        LET parsed == CefParseJSONAndReturnError(res.contents)
            value == parsed.value
            parse == Step("parse", "GetInternalManifest", c,
                          [value |-> value])
        IN  IF value = NullPtr
            THEN read \o parse
                 \o Step("LOG", "GetInternalManifest", c,
                         <<"Failed to parse manifest from ", manifest_path,
                           "; ", parsed.error_msg>>)
                 \o RunManifestCallback(c, callback, NullPtr)
            ELSE read \o parse
                 \o RunManifestCallback(c, callback, GetDictionary(value))

\* The part of GetInternalManifest that runs on the FILE thread: read, parse
\* and hand the result to RunManifestCallback. res is what LoadBinaryResource
\* yields for the manifest path.
ReadManifest(c, extension_path, callback, res) ==
  LET manifest_path == GetInternalExtensionResourcePath(
                         JoinPath(extension_path, manifest_json))
      read == Step("read", "GetInternalManifest", c,
                   [path |-> manifest_path, res |-> res])
  IN  IF ~res.ok \/ res.contents = ""
      THEN read
           \o Step("LOG", "GetInternalManifest", c,
                   <<"Failed to load manifest from ", manifest_path>>)
           \o RunManifestCallback(c, callback, NullPtr)
      ELSE
        LET parsed == CefParseJSONAndReturnError(res.contents)
            value == parsed.value
            error_msg ==
              IF parsed.error_msg = ""
              THEN "Incorrectly formatted dictionary contents."
              ELSE parsed.error_msg
            parse == Step("parse", "GetInternalManifest", c,
                          [value |-> value])
        IN  IF value = NullPtr \/ value.type # "VTYPE_DICTIONARY"
            THEN read \o parse
                 \o Step("LOG", "GetInternalManifest", c,
                         <<"Failed to parse manifest from ", manifest_path,
                           "; ", error_msg>>)
                 \o RunManifestCallback(c, callback, NullPtr)
            ELSE read \o parse
                 \o RunManifestCallback(c, callback, GetDictionary(value))

\* GetInternalManifest without the test of the thread.
GetInternalManifest_NoThreadTest(c, extension_path, callback, res) ==
  Step("enter", "GetInternalManifest", c, <<>>)
  \o ReadManifest(c, extension_path, callback, res)

GetInternalManifest(c, extension_path, callback, res) ==
  Step("enter", "GetInternalManifest", c, <<>>)
  \o (IF ~CefCurrentlyOn(c, TID_FILE)
      THEN CefPostTask(c, TID_FILE, "GetInternalManifest", extension_path,
                       <<>>, callback, NullPtr)
      ELSE ReadManifest(c, extension_path, callback, res))

\* LoadExtension without the test of the thread.
LoadExtension_NoThreadTest(c, extension_path, res) ==
  Step("enter", "LoadExtension", c, <<>>)
  \o (IF IsInternalExtension(extension_path)
      THEN GetInternalManifest(c, extension_path,
                               [fn |-> "LoadExtensionWithManifest",
                                path |-> extension_path], res)
      ELSE EngineLoadExtension(c, "LoadExtension", extension_path, NullPtr))

\* LoadExtension that takes every path for internal.
LoadExtension_NoInternalTest(c, extension_path, res) ==
  Step("enter", "LoadExtension", c, <<>>)
  \o (IF ~CefCurrentlyOn(c, TID_UI)
      THEN CefPostTask(c, TID_UI, "LoadExtension", extension_path, <<>>,
                       NoCallback, NullPtr)
      ELSE GetInternalManifest(c, extension_path,
                               [fn |-> "LoadExtensionWithManifest",
                                path |-> extension_path], res))

\* LoadExtension without the return after CefPostTask.
LoadExtension_NoReturn(c, extension_path, res) ==
  Step("enter", "LoadExtension", c, <<>>)
  \o (IF ~CefCurrentlyOn(c, TID_UI)
      THEN CefPostTask(c, TID_UI, "LoadExtension", extension_path, <<>>,
                       NoCallback, NullPtr)
      ELSE <<>>)
  \o (IF IsInternalExtension(extension_path)
      THEN GetInternalManifest(c, extension_path,
                               [fn |-> "LoadExtensionWithManifest",
                                path |-> extension_path], res)
      ELSE EngineLoadExtension(c, "LoadExtension", extension_path, NullPtr))

LoadExtension(c, extension_path, res) ==
  Step("enter", "LoadExtension", c, <<>>)
  \o (IF ~CefCurrentlyOn(c, TID_UI)
      THEN CefPostTask(c, TID_UI, "LoadExtension", extension_path, <<>>,
                       NoCallback, NullPtr)
      ELSE IF IsInternalExtension(extension_path)
      THEN GetInternalManifest(c, extension_path,
                               [fn |-> "LoadExtensionWithManifest",
                                path |-> extension_path], res)
      ELSE EngineLoadExtension(c, "LoadExtension", extension_path, NullPtr))

\* AddInternalExtensionToResourceManager without the test of the thread.
AddInternalExtension_NoThreadTest(c, extension_id, extension_path, dir) ==
  Step("enter", "AddInternalExtensionToResourceManager", c, <<>>)
  \o DCHECK(IsInternalExtension(extension_path),
            "AddInternalExtensionToResourceManager", c)
  \o (LET origin == GetExtensionOrigin(extension_id)
          resource_path == GetInternalExtensionResourcePath(extension_path)
      IN  IF os_win
          THEN Step("AddProvider", "AddInternalExtensionToResourceManager",
                    c, [origin |-> origin, root |-> resource_path,
                        priority |-> 50, order |-> <<>>])
          ELSE Step("GetResourceDir",
                    "AddInternalExtensionToResourceManager", c, dir)
               \o (IF dir.ok
                   THEN Step("AddDirectoryProvider",
                             "AddInternalExtensionToResourceManager", c,
                             [origin |-> origin,
                              root |-> dir.dir \o <<"/">> \o resource_path,
                              priority |-> 50, order |-> <<>>])
                   ELSE <<>>))

\* AddInternalExtensionToResourceManager without the test of what
\* GetResourceDir returns.
AddInternalExtension_NoDirTest(c, extension_id, extension_path, dir) ==
  Step("enter", "AddInternalExtensionToResourceManager", c, <<>>)
  \o DCHECK(IsInternalExtension(extension_path),
            "AddInternalExtensionToResourceManager", c)
  \o (IF ~CefCurrentlyOn(c, TID_IO)
      THEN CefPostTask(c, TID_IO, "AddInternalExtensionToResourceManager",
                       extension_path, extension_id, NoCallback, NullPtr)
      ELSE
        LET origin == GetExtensionOrigin(extension_id)
            resource_path == GetInternalExtensionResourcePath(extension_path)
        IN  IF os_win
            THEN Step("AddProvider", "AddInternalExtensionToResourceManager",
                      c, [origin |-> origin, root |-> resource_path,
                          priority |-> 50, order |-> <<>>])
            ELSE Step("GetResourceDir",
                      "AddInternalExtensionToResourceManager", c, dir)
                 \o Step("AddDirectoryProvider",
                         "AddInternalExtensionToResourceManager", c,
                         [origin |-> origin,
                          root |-> dir.dir \o <<"/">> \o resource_path,
                          priority |-> 50, order |-> <<>>]))

\* dir is what GetResourceDir yields: [ok, dir].
AddInternalExtensionToResourceManager(c, extension_id, extension_path, dir) ==
  Step("enter", "AddInternalExtensionToResourceManager", c, <<>>)
  \o DCHECK(IsInternalExtension(extension_path),
            "AddInternalExtensionToResourceManager", c)
  \o (IF ~CefCurrentlyOn(c, TID_IO)
      THEN CefPostTask(c, TID_IO, "AddInternalExtensionToResourceManager",
                       extension_path, extension_id, NoCallback, NullPtr)
      ELSE
        LET origin == GetExtensionOrigin(extension_id)
            resource_path == GetInternalExtensionResourcePath(extension_path)
        IN  IF os_win
            THEN Step("AddProvider", "AddInternalExtensionToResourceManager",
                      c, [origin |-> origin, root |-> resource_path,
                          priority |-> 50, order |-> <<>>])
            ELSE Step("GetResourceDir",
                      "AddInternalExtensionToResourceManager", c, dir)
                 \o (IF dir.ok
                     THEN Step("AddDirectoryProvider",
                               "AddInternalExtensionToResourceManager", c,
                               [origin |-> origin,
                                root |-> dir.dir \o <<"/">> \o resource_path,
                                priority |-> 50, order |-> <<>>])
                     ELSE <<>>))

(***************************************************************************)
(* The environment: what the application passes in and what the platform   *)
(* calls return.                                                           *)
(***************************************************************************)
\* Extension paths the application loads: the bundled extension below the
\* resources directory "r", and a directory of the user's.
Paths == {<<"r", kPathSep>> \o set_page_color, <<"x">>}

InternalPaths == {p \in Paths : IsInternalExtension(p)}

\* Paths of loaded internal extensions that the application registers: the
\* bundled extension, and a directory below an allowlisted name given
\* relative to the resources directory.
RegisteredPaths ==
  {p \in Paths \cup {set_page_color \o <<kPathSep, "s">>} :
     IsInternalExtension(p)}

\* Identifiers the engine gives to loaded extensions.
ExtIds == {<<"a">>, <<"b">>}

\* No file read: the result given where LoadBinaryResource is not reached.
NoRes == [ok |-> FALSE, contents |-> ""]

\* Results of LoadBinaryResource: failure, no bytes, bytes that are not JSON,
\* JSON that is no dictionary, a dictionary.
Resources ==
  {NoRes} \cup {[ok |-> TRUE, contents |-> s] : s \in {"", "{", "[]", "{}"}}

NoDir == [ok |-> FALSE, dir |-> <<>>]

\* Results of GetResourceDir.
Dirs == {NoDir, [ok |-> TRUE, dir |-> <<"d">>]}

\* The results the platform calls can give to function fn run on thread c:
\* every result where fn reaches the call, one (unused) result elsewhere.
ReadsOf(fn, c) ==
  IF fn = "GetInternalManifest" /\ c = TID_FILE THEN Resources ELSE {NoRes}

DirsOf(fn, c) ==
  IF fn = "AddInternalExtensionToResourceManager" /\ c = TID_IO /\ ~os_win
  THEN Dirs ELSE {NoDir}

(***************************************************************************)
(* The state machine.                                                      *)
(***************************************************************************)
\* The extension pipeline before any call.
InitPipeline ==
  /\ os_win \in BOOLEAN
  /\ resources_dir \in {<<>>, <<"r">>}
  /\ req = <<>>
  /\ hist = <<>>
  /\ queue = [c \in Ctx |-> <<>>]
  /\ nposted = [o \in Ctx |-> [c \in Ctx |-> 0]]
  /\ ran = [o \in Ctx |-> [c \in Ctx |-> <<>>]]
  /\ loaded = <<>>
  /\ registry = <<>>
  /\ aborted = FALSE
  /\ pure = <<>>

\* browser::CreateDelegates: delegates.insert(new ClientBrowserDelegate)
CreateDelegates(delegates) == Append(delegates, "ClientBrowserDelegate")

\* ClientAppBrowser::ClientAppBrowser()
Init ==
  /\ InitPipeline
  /\ delegates_ = CreateDelegates(<<>>)
  /\ print_handler_ = "NULL"
  /\ events = <<>>

IsFailedCheck(e) == e.ev = "DCHECK"
IsPost(e) == e.ev = "post"
IsEngine(e) == e.ev = "engine"
IsAdd(e) == e.ev \in {"AddProvider", "AddDirectoryProvider"}

\* The steps of s in a build with DCHECKs: a failed check is fatal, the steps
\* after the first one are not taken.
Debug(s) ==
  IF \E k \in 1..Len(s) : IsFailedCheck(s[k])
  THEN SubSeq(s, 1, CHOOSE k \in 1..Len(s) :
                      /\ IsFailedCheck(s[k])
                      /\ \A j \in 1..(k - 1) : ~IsFailedCheck(s[j]))
  ELSE s

\* The steps of s in a build without DCHECKs: the checks are compiled out.
Release(s) == SelectSeq(s, LAMBDA e : ~IsFailedCheck(e))

\* The steps of s that are taken, in either build. The two agree unless a
\* check fails.
Runs(s) == UNION {{Debug(t), Release(t)} : t \in {s}}

\* The task that the k-th step of s, a post step, puts in its target's queue
\* for call i: the bound function and arguments, the posting thread, and the
\* number of the task among those posted from that thread to that target.
TaskOf(s, k, i, np) ==
  LET e == s[k]
  IN  [fn |-> e.fn, req |-> i, path |-> e.arg.path, id |-> e.arg.id,
       callback |-> e.arg.callback, manifest |-> e.arg.manifest,
       origin |-> e.ctx,
       stamp |-> np[e.ctx][e.arg.to]
                 + Cardinality({j \in 1..k : /\ IsPost(s[j])
                                             /\ s[j].ctx = e.ctx
                                             /\ s[j].arg.to = e.arg.to})]

\* The indices of the steps of s that satisfy Test, in order.
Indices(s, Test(_)) ==
  LET I == {k \in 1..Len(s) : Test(s[k])}
  IN  [n \in 1..Cardinality(I) |->
         CHOOSE k \in I : Cardinality({j \in I : j <= k}) = n]

\* The tasks that the post steps of s put in the queue of thread tid.
PostedTo(s, tid, i, np) ==
  LET I == Indices(s, LAMBDA e : IsPost(e) /\ e.arg.to = tid)
  IN  [n \in 1..Len(I) |-> TaskOf(s, I[n], i, np)]

\* request_context->LoadExtension as the engine sees it
LoadedBy(e, i) ==
  [req |-> i, path |-> e.arg.path, manifest |-> e.arg.manifest, ctx |-> e.ctx]

\* resource_manager->AddProvider / AddDirectoryProvider as the registry sees it
ProviderOf(e) ==
  [kind |-> e.ev, origin |-> e.arg.origin, root |-> e.arg.root,
   priority |-> e.arg.priority, order |-> e.arg.order, ctx |-> e.ctx]

Loads(s, i) ==
  LET I == Indices(s, IsEngine)
  IN  [n \in 1..Len(I) |-> LoadedBy(s[I[n]], i)]

Providers(s) ==
  LET I == Indices(s, IsAdd)
  IN  [n \in 1..Len(I) |-> ProviderOf(s[I[n]])]

\* A queue that takes new tasks at its front.
Posted_Front(q, ts) == ts \o q

\* The queue of a thread after CefPostTask appended the tasks ts to it.
Posted(q, ts) == q \o ts

\* The task the message loop of a thread with queue q runs next, and the
\* queue it leaves.
NextTask(q) == Head(q)
AfterNextTask(q) == Tail(q)

\* The state after the steps of s were taken for call i, the task queues
\* being q and the histories h before them.
Apply(i, s, q, h) ==
  /\ queue' = [tid \in Ctx |-> Posted(q[tid], PostedTo(s, tid, i, nposted))]
  /\ nposted' = [o \in Ctx |-> [tid \in Ctx |->
                   nposted[o][tid]
                   + Cardinality({k \in 1..Len(s) : /\ IsPost(s[k])
                                                     /\ s[k].ctx = o
                                                     /\ s[k].arg.to = tid})]]
  /\ hist' = [h EXCEPT ![i] = @ \o s]
  /\ loaded' = loaded \o Loads(s, i)
  /\ registry' = registry \o Providers(s)
  /\ aborted' = (s # <<>> /\ IsFailedCheck(s[Len(s)]))

\* The application calls LoadExtension(request_context, p, handler) on thread c.
CallLoadExtension(c, p) ==
  /\ ~aborted /\ Len(req) < MaxReq
  /\ req' = Append(req, [fn |-> "LoadExtension", path |-> p, id |-> <<>>,
                         from |-> c])
  /\ \E res \in ReadsOf("LoadExtension", c) :
       \E s \in Runs(LoadExtension(c, p, res)) :
         Apply(Len(req) + 1, s, queue, Append(hist, <<>>))
  /\ UNCHANGED <<os_win, resources_dir, ran, pure, delegates_, print_handler_,
               events>>

\* GetInternalManifest(p, callback) is called on thread c with a callback
\* that only takes the manifest. The function is local to the file and
\* LoadExtension, its one caller, calls it on TID_UI.
CallGetInternalManifest(c, p) ==
  /\ ~aborted /\ Len(req) < MaxReq
  /\ req' = Append(req, [fn |-> "GetInternalManifest", path |-> p,
                         id |-> <<>>, from |-> c])
  /\ \E res \in ReadsOf("GetInternalManifest", c) :
       \E s \in Runs(GetInternalManifest(c, p, [fn |-> "callback",
                                                 path |-> p], res)) :
         Apply(Len(req) + 1, s, queue, Append(hist, <<>>))
  /\ UNCHANGED <<os_win, resources_dir, ran, pure, delegates_, print_handler_,
               events>>

\* The application calls AddInternalExtensionToResourceManager(extension,
\* resource_manager) on thread c for an extension with identifier id and
\* path p.
CallAddInternalExtensionToResourceManager(c, id, p) ==
  /\ ~aborted /\ Len(req) < MaxReq
  /\ req' = Append(req, [fn |-> "AddInternalExtensionToResourceManager",
                         path |-> p, id |-> id, from |-> c])
  /\ \E dir \in DirsOf("AddInternalExtensionToResourceManager", c) :
       \E s \in Runs(AddInternalExtensionToResourceManager(c, id, p, dir)) :
         Apply(Len(req) + 1, s, queue, Append(hist, <<>>))
  /\ UNCHANGED <<os_win, resources_dir, ran, pure, delegates_, print_handler_,
               events>>

\* What the task t does when thread c runs it.
RunBound(c, t, res, dir) ==
  CASE t.fn = "LoadExtension" -> LoadExtension(c, t.path, res)
    [] t.fn = "GetInternalManifest" ->
         GetInternalManifest(c, t.path, t.callback, res)
    [] t.fn = "RunManifestCallback" ->
         RunManifestCallback(c, t.callback, t.manifest)
    [] t.fn = "AddInternalExtensionToResourceManager" ->
         AddInternalExtensionToResourceManager(c, t.id, t.path, dir)

\* The message loop of thread c takes the task at the head of its queue and
\* runs it to completion.
RunTask(c) ==
  /\ ~aborted /\ queue[c] # <<>>
  /\ LET t == NextTask(queue[c])
     IN  /\ \E res \in ReadsOf(t.fn, c), dir \in DirsOf(t.fn, c) :
               \E s \in Runs(RunBound(c, t, res, dir)) :
                 Apply(t.req, s, [queue EXCEPT ![c] = AfterNextTask(@)], hist)
         /\ ran' = [ran EXCEPT ![t.origin][c] = Append(@, t.stamp)]
  /\ UNCHANGED <<os_win, resources_dir, req, pure, delegates_, print_handler_,
               events>>

\* The load pipeline: the application loads extensions, the manifest loader
\* is also called on the IO thread, and the message loops run their tasks.
Next ==
  \/ \E c \in Ctx, p \in Paths : CallLoadExtension(c, p)
  \/ \E p \in InternalPaths : CallGetInternalManifest(TID_IO, p)
  \/ \E c \in Ctx : RunTask(c)

Spec == Init /\ [][Next]_vars

\* The message loop of every thread keeps running its pending tasks.
FairSpec == Spec /\ \A c \in Ctx : WF_vars(RunTask(c))

\* The registration of resource providers: the application registers loaded
\* internal extensions and the message loops run their tasks. It shares no
\* queue and no data with the load pipeline: its tasks are the only ones
\* posted to TID_IO.
NextRegistry ==
  \/ \E c \in Ctx, id \in ExtIds, p \in RegisteredPaths :
       CallAddInternalExtensionToResourceManager(c, id, p)
  \/ \E c \in Ctx : RunTask(c)

RegistrySpec == Init /\ [][NextRegistry]_vars

\* Registrations by a caller that does not keep the precondition: the path
\* may be one that IsInternalExtension rejects.
NextAnyRegistry ==
  \/ \E c \in Ctx, id \in ExtIds, p \in Paths \cup RegisteredPaths :
       CallAddInternalExtensionToResourceManager(c, id, p)
  \/ \E c \in Ctx : RunTask(c)

AnyRegistrySpec == Init /\ [][NextAnyRegistry]_vars

\* The whole file: loads and registrations side by side.
NextAll ==
  \/ \E c \in Ctx, p \in Paths : CallLoadExtension(c, p)
  \/ \E p \in InternalPaths : CallGetInternalManifest(TID_IO, p)
  \/ \E c \in Ctx, id \in ExtIds, p \in RegisteredPaths :
       CallAddInternalExtensionToResourceManager(c, id, p)
  \/ \E c \in Ctx : RunTask(c)

AllSpec == Init /\ [][NextAll]_vars

(***************************************************************************)
(* The functions without effects, called on strings put together from      *)
(* pieces: an allowlisted name, another character, and both separators.    *)
(***************************************************************************)
\* Number of pieces in front of a name, after the resources path if any.
MaxPrefixPieces == 1

\* Number of pieces of a name.
MaxNamePieces == 3

Pieces == {set_page_color, <<"X">>, <<"/">>, <<"\\">>}

RECURSIVE Strings(_)
Strings(n) ==
  IF n = 0 THEN {<<>>}
  ELSE LET S == Strings(n - 1) IN S \cup {s \o p : s \in S, p \in Pieces}

\* Nothing, the resources path, and the resources path twice.
Roots == {<<>>, GetResourcesPath, GetResourcesPath \o GetResourcesPath}

Prefixes == {r \o s : r \in Roots, s \in Strings(MaxPrefixPieces)}

Names == Strings(MaxNamePieces)

\* IsInternalExtension(prefix + name) is called.
CallIsInternalExtension(prefix, name) ==
  /\ pure = <<>>
  /\ pure' = <<[fn |-> "IsInternalExtension",
                arg |-> [prefix |-> prefix, name |-> name],
                ret |-> IsInternalExtension(prefix \o name)]>>
  /\ UNCHANGED <<os_win, resources_dir, req, hist, queue, nposted, ran,
                 loaded, registry, aborted, delegates_, print_handler_,
                 events>>

\* s without the "extensions/" in front of it.
PastExtensions(s) == SubSeq(s, Len(extensions_slash) + 1, Len(s))

\* What a caller that normalizes again passes in: the result of the last
\* call of GetInternalExtensionResourcePath without its "extensions/".
Renormalized ==
  IF Len(pure) = 1 /\ pure[1].fn = "GetInternalExtensionResourcePath"
  THEN {PastExtensions(pure[1].ret)}
  ELSE {}

\* GetInternalExtensionResourcePath(p) is called, for a new path or for the
\* result of the call before.
CallGetInternalExtensionResourcePath(p) ==
  /\ pure = <<>> \/ p \in Renormalized
  /\ pure' = Append(pure, [fn |-> "GetInternalExtensionResourcePath",
                           arg |-> p,
                           ret |-> GetInternalExtensionResourcePath(p)])
  /\ UNCHANGED <<os_win, resources_dir, req, hist, queue, nposted, ran,
                 loaded, registry, aborted, delegates_, print_handler_,
                 events>>

popup_html == <<"p", "o", "p", "u", "p", ".", "h", "t", "m", "l">>

icon_png == <<"i", "c", "o", "n", ".", "p", "n", "g">>

abc123 == <<"a", "b", "c", "1", "2", "3">>

\* Entries of a dictionary.
StringEntry(key, str) ==
  [key |-> key, type |-> "VTYPE_STRING", str |-> str, dict |-> {}]

DictEntry(key, dict) ==
  [key |-> key, type |-> "VTYPE_DICTIONARY", str |-> <<>>, dict |-> dict]

IntEntry(key) == [key |-> key, type |-> "VTYPE_INT", str |-> <<>>, dict |-> {}]

\* What "browser_action" holds in the manifests: nothing, one or both of the
\* keys, either of them empty or not a string.
BrowserActions ==
  {{}, {StringEntry("default_popup", popup_html)},
   {StringEntry("default_popup", <<>>)}, {IntEntry("default_popup")},
   {StringEntry("default_icon", icon_png)},
   {StringEntry("default_icon", <<>>)}, {IntEntry("default_icon")},
   {StringEntry("default_popup", popup_html),
    StringEntry("default_icon", icon_png)}}

\* Manifests: {}, without "browser_action", with a "browser_action" that is
\* no dictionary, with one that is.
Manifests ==
  {{}, {StringEntry("name", <<"n">>)},
   {StringEntry("browser_action", popup_html)}, {IntEntry("browser_action")}}
  \cup {{DictEntry("browser_action", b)} : b \in BrowserActions}
  \cup {{StringEntry("name", <<"n">>), DictEntry("browser_action", b)} :
          b \in BrowserActions}

\* The loaded extensions the functions are called with.
Extensions ==
  [id : {abc123, <<"a">>},
   path : {<<"X">>, GetResourcesPath \o set_page_color},
   manifest : Manifests]

CallGetExtensionURL(extension) ==
  /\ pure = <<>>
  /\ pure' = <<[fn |-> "GetExtensionURL", arg |-> extension,
                ret |-> GetExtensionURL(extension)]>>
  /\ UNCHANGED <<os_win, resources_dir, req, hist, queue, nposted, ran,
                 loaded, registry, aborted, delegates_, print_handler_,
                 events>>

CallGetExtensionIconPath(extension) ==
  /\ pure = <<>>
  /\ pure' = <<[fn |-> "GetExtensionIconPath", arg |-> extension,
                ret |-> GetExtensionIconPath(extension)]>>
  /\ UNCHANGED <<os_win, resources_dir, req, hist, queue, nposted, ran,
                 loaded, registry, aborted, delegates_, print_handler_,
                 events>>

\* The paths a caller may pass in next.
NextPaths ==
  IF pure = <<>>
  THEN {prefix \o name : prefix \in Prefixes, name \in Names}
  ELSE Renormalized

NextPure ==
  \/ /\ pure = <<>>
     /\ \E prefix \in Prefixes, name \in Names :
          CallIsInternalExtension(prefix, name)
  \/ \E p \in NextPaths : CallGetInternalExtensionResourcePath(p)
  \/ /\ pure = <<>>
     /\ \E extension \in Extensions : CallGetExtensionURL(extension)
  \/ /\ pure = <<>>
     /\ \E extension \in Extensions : CallGetExtensionIconPath(extension)

PureSpec == Init /\ [][NextPure]_vars

(***************************************************************************)
(* ClientAppBrowser (client_app_browser.cc): the CefApp of the browser     *)
(* process, which passes the events it gets on to its delegates. A command *)
(* line is the set of its switches, <<name, value>>; the names are those   *)
(* of the constants of namespace switches.                                 *)
(***************************************************************************)
\* Number of events ClientAppBrowser gets.
MaxEvents == 2

HasSwitch(command_line, name) == \E sw \in command_line : sw[1] = name

AppendSwitchWithValue(command_line, name, value) ==
  {sw \in command_line : sw[1] # name} \cup {<<name, value>>}

AppendSwitch(command_line, name) ==
  AppendSwitchWithValue(command_line, name, "")

\* Lines 24-54: the switches added for the browser process.
BrowserSwitches(command_line) ==
  LET c1 == AppendSwitchWithValue(
              AppendSwitch(AppendSwitch(AppendSwitch(command_line,
                "kUseViews"), "kHideFrame"), "kHideControls"),
              "disable-web-security", "true")
      c2 == IF /\ HasSwitch(c1, "kOffScreenRenderingEnabled")
               /\ ~HasSwitch(c1, "kSharedTextureEnabled")
               /\ ~HasSwitch(c1, "kEnableGPU")
            THEN AppendSwitch(AppendSwitch(c1, "disable-gpu"),
                              "disable-gpu-compositing")
            ELSE c1
      c3 == IF HasSwitch(c2, "kUseViews") /\ ~HasSwitch(c2, "top-chrome-md")
            THEN AppendSwitchWithValue(c2, "top-chrome-md", "non-material")
            ELSE c2
  IN  IF /\ ~HasSwitch(c3, "kCachePath")
         /\ ~HasSwitch(c3, "disable-gpu-shader-disk-cache")
      THEN AppendSwitch(c3, "disable-gpu-shader-disk-cache")
      ELSE c3

\* What a delegate does when method is called on it. ClientBrowserDelegate
\* overrides OnContextInitialized (client_browser.cc, lines 21-40); every
\* other method of a delegate does nothing. env is what the process-wide
\* calls give: [crash, crl].
DelegateRun(delegate, method, env) ==
  IF delegate = "ClientBrowserDelegate" /\ method = "OnContextInitialized"
  THEN (IF env.crash THEN <<"CefSetCrashKeyValue">> ELSE <<>>)
       \o (IF env.crl # "" THEN <<"CefLoadCRLSetsFile">> ELSE <<>>)
  ELSE <<>>

\* A loop over the delegates that stops after the first one.
NotifyAll_FirstOnly(delegates, method, env) ==
  [n \in 1..(IF delegates = <<>> THEN 0 ELSE 1) |->
     [delegate |-> delegates[n], method |-> method,
      did |-> DelegateRun(delegates[n], method, env)]]

\* for (it = delegates_.begin(); it != delegates_.end(); ++it)
\*   (*it)->method(this, ...)
NotifyAll(delegates, method, env) ==
  [n \in 1..Len(delegates) |->
     [delegate |-> delegates[n], method |-> method,
      did |-> DelegateRun(delegates[n], method, env)]]

NoEnv == [crash |-> FALSE, crl |-> ""]

\* Each handler yields the record of the event: what it was called with, the
\* command line it leaves, and the calls it made on the delegates, in order.
OnBeforeCommandLineProcessing(process_type, command_line) ==
  IF process_type = ""
  THEN [name |-> "OnBeforeCommandLineProcessing",
        process_type |-> process_type,
        command_line |-> BrowserSwitches(command_line),
        notified |-> NotifyAll(delegates_, "OnBeforeCommandLineProcessing",
                               NoEnv)]
  ELSE [name |-> "OnBeforeCommandLineProcessing",
        process_type |-> process_type,
        command_line |-> command_line,
        notified |-> <<>>]

OnContextInitialized(env) ==
  [name |-> "OnContextInitialized", process_type |-> "",
   command_line |-> {},
   notified |-> NotifyAll(delegates_, "OnContextInitialized", env)]

OnBeforeChildProcessLaunch(command_line) ==
  [name |-> "OnBeforeChildProcessLaunch", process_type |-> "",
   command_line |-> command_line,
   notified |-> NotifyAll(delegates_, "OnBeforeChildProcessLaunch", NoEnv)]

OnRenderProcessThreadCreated ==
  [name |-> "OnRenderProcessThreadCreated", process_type |-> "",
   command_line |-> {},
   notified |-> NotifyAll(delegates_, "OnRenderProcessThreadCreated", NoEnv)]

OnScheduleMessagePumpWork ==
  [name |-> "OnScheduleMessagePumpWork", process_type |-> "",
   command_line |-> {}, notified |-> <<>>]

\* The delegate sets ClientAppBrowser can be constructed with, in the order
\* of iteration of the std::set: the delegate of browser::CreateDelegates,
\* alone or with one more.
DelegateOrders ==
  {CreateDelegates(<<>>), CreateDelegates(<<"OtherDelegate">>),
   CreateDelegates(<<>>) \o <<"OtherDelegate">>}

\* Command lines that take the branches of lines 30-54 both ways.
CommandLines ==
  {{}, {<<"kOffScreenRenderingEnabled", "">>},
   {<<"kOffScreenRenderingEnabled", "">>, <<"kSharedTextureEnabled", "">>},
   {<<"kOffScreenRenderingEnabled", "">>, <<"kEnableGPU", "">>},
   {<<"top-chrome-md", "material">>}, {<<"kCachePath", "c">>},
   {<<"disable-gpu-shader-disk-cache", "">>}}

ProcessTypes == {"", "renderer"}

Envs == [crash : BOOLEAN, crl : {"", "f"}]

InitApp ==
  /\ InitPipeline
  /\ delegates_ \in DelegateOrders
  /\ print_handler_ = "NULL"
  /\ events = <<>>

\* CEF calls a handler of ClientAppBrowser, which runs to its end.
Handle(event, handler) ==
  /\ Len(events) < MaxEvents
  /\ events' = Append(events, event)
  /\ print_handler_' = handler
  /\ UNCHANGED <<os_win, resources_dir, req, hist, queue, nposted, ran,
                 loaded, registry, aborted, pure, delegates_>>

NextApp ==
  \/ \E process_type \in ProcessTypes, command_line \in CommandLines :
       Handle(OnBeforeCommandLineProcessing(process_type, command_line),
              print_handler_)
  \/ \E env \in Envs : Handle(OnContextInitialized(env), "PrintHandler")
  \/ \E command_line \in CommandLines :
       Handle(OnBeforeChildProcessLaunch(command_line), print_handler_)
  \/ Handle(OnRenderProcessThreadCreated, print_handler_)
  \/ Handle(OnScheduleMessagePumpWork, print_handler_)

AppSpec == InitApp /\ [][NextApp]_vars

(***************************************************************************)
(* Vocabulary of the properties.                                           *)
(***************************************************************************)
Calls == 1..Len(req)

\* The positions in the history of call i of the steps ev.
At(i, ev) == {k \in 1..Len(hist[i]) : hist[i][k].ev = ev}

\* The positions where function fn was entered for call i.
Entered(i, fn) == {k \in At(i, "enter") : hist[i][k].fn = fn}

\* A task of call i is waiting in some queue.
Pending(i) == \E c \in Ctx : \E k \in 1..Len(queue[c]) : queue[c][k].req = i

\* Call i went through the manifest loader.
UsesLoader(i) == Entered(i, "GetInternalManifest") # {}

\* A result of LoadBinaryResource for which the loader has no dictionary: the
\* load failed, gave no bytes, gave bytes that are not JSON, or gave JSON
\* whose top-level value is no dictionary.
NoManifestIn(res) == ~res.ok \/ res.contents \in {"", "{", "[]"}

(***************************************************************************)
(* C1. Whatever thread the manifest loader is called on and whatever the   *)
(* outcome of the load, the continuation runs on the UI thread only: no    *)
(* reachable state has a run of the continuation on FILE or IO.            *)
(***************************************************************************)
C1_ContinuationOnUI ==
  \A i \in Calls : \A k \in At(i, "callback") : hist[i][k].ctx = TID_UI

\* The continuation of a loader call made on IO has run after a failed parse,
\* and the one of a load requested on FILE has run with a dictionary.
C1_Witness ==
  \E i, j \in Calls :
    /\ req[i].fn = "GetInternalManifest" /\ req[i].from = TID_IO
    /\ \E k \in At(i, "read") : hist[i][k].arg.res.contents = "{"
    /\ At(i, "callback") # {}
    /\ req[j].fn = "LoadExtension" /\ req[j].from = TID_FILE
    /\ \E k \in At(j, "callback") :
         hist[j][k].arg.manifest.type = "VTYPE_DICTIONARY"

(***************************************************************************)
(* C2. Every call of the manifest loader runs its continuation exactly     *)
(* once: never more than once, and once no task of the call is left in a   *)
(* queue (the message loops having drained them), exactly once. No posted  *)
(* task is dropped on the way to FILE and back to UI.                      *)
(***************************************************************************)
C2_ExactlyOnce ==
  \A i \in Calls :
    /\ Cardinality(At(i, "callback")) <= 1
    /\ (UsesLoader(i) /\ ~Pending(i)) => Cardinality(At(i, "callback")) = 1

\* All queues are drained after two loader calls, one made on IO and one
\* through LoadExtension on FILE, and both needed both re-posts.
C2_Witness ==
  /\ \A c \in Ctx : queue[c] = <<>>
  /\ \E i, j \in Calls :
       /\ req[i].from = TID_IO /\ req[j].from = TID_FILE
       /\ \A n \in {i, j} :
            /\ UsesLoader(n)
            /\ \E k \in At(n, "post") : hist[n][k].arg.to = TID_FILE
            /\ \E k \in At(n, "post") : hist[n][k].fn = "RunManifestCallback"
            /\ Cardinality(At(n, "callback")) = 1

(***************************************************************************)
(* C3. The loader delivers a null manifest and logs the failure exactly    *)
(* once for the call if and only if the load of the binary resource fails, *)
(* gives empty content, the JSON parse fails or the top-level value is no  *)
(* dictionary; otherwise it delivers the parsed dictionary and logs        *)
(* nothing.                                                                *)
(***************************************************************************)
C3_NullIffFailure ==
  \A i \in Calls : \A r \in At(i, "read") :
    LET res == hist[i][r].arg.res
    IN  /\ Cardinality(At(i, "LOG")) = (IF NoManifestIn(res) THEN 1 ELSE 0)
        /\ \A k \in At(i, "callback") :
             /\ (hist[i][k].arg.manifest = NullPtr) <=> NoManifestIn(res)
             /\ ~NoManifestIn(res) =>
                  hist[i][k].arg.manifest =
                    [type |-> "VTYPE_DICTIONARY", json |-> res.contents]

\* A delivery of null after JSON that is no dictionary, and a delivery of the
\* dictionary.
C3_Witness ==
  \E i, j \in Calls :
    /\ \E r \in At(i, "read") : hist[i][r].arg.res.contents = "[]"
    /\ \E k \in At(i, "callback") : hist[i][k].arg.manifest = NullPtr
    /\ \E r \in At(j, "read") : hist[j][r].arg.res.contents = "{}"
    /\ \E k \in At(j, "callback") : hist[j][k].arg.manifest # NullPtr

(***************************************************************************)
(* C4. Every LoadExtension request, for an internal or an external path    *)
(* and from any thread, leads to exactly one LoadExtension call of the     *)
(* engine for that path: never more than one, and eventually one. A        *)
(* manifest that cannot be loaded or parsed does not stop the load, the    *)
(* engine is then called with a null manifest.                             *)
(***************************************************************************)
\* The positions in loaded of the engine calls made for call i.
EngineCallsOf(i) == {k \in 1..Len(loaded) : loaded[k].req = i}

IsLoadRequest(i) == i \in Calls /\ req[i].fn = "LoadExtension"

LoadedOnce(i) ==
  /\ Cardinality(EngineCallsOf(i)) = 1
  /\ \A k \in EngineCallsOf(i) :
       /\ loaded[k].path = req[i].path
       /\ \A r \in At(i, "read") :
            NoManifestIn(hist[i][r].arg.res) => loaded[k].manifest = NullPtr

C4_EventuallyLoadedOnce ==
  \A i \in 1..MaxReq :
    /\ [](IsLoadRequest(i) =>
            (Cardinality(EngineCallsOf(i)) = 0 \/ LoadedOnce(i)))
    /\ (IsLoadRequest(i) ~> LoadedOnce(i))

\* The engine was called with a null manifest for an internal path requested
\* on IO whose manifest could not be loaded, and for an external path.
C4_Witness ==
  \E i, j \in Calls :
    /\ IsLoadRequest(i) /\ req[i].from = TID_IO
    /\ \E r \in At(i, "read") : ~hist[i][r].arg.res.ok
    /\ LoadedOnce(i)
    /\ IsLoadRequest(j) /\ At(j, "read") = {} /\ LoadedOnce(j)

(***************************************************************************)
(* C5. The engine's LoadExtension is called on the UI thread only, for     *)
(* requests made on any thread with an internal or an external path: no    *)
(* reachable state has an engine call made on FILE or IO, and the check of *)
(* the thread in LoadExtensionWithManifest never fails.                    *)
(***************************************************************************)
C5_EngineOnUI ==
  /\ \A k \in 1..Len(loaded) : loaded[k].ctx = TID_UI
  /\ \A i \in Calls : \A k \in At(i, "engine") : hist[i][k].ctx = TID_UI
  /\ \A i \in Calls : At(i, "DCHECK") = {}
  /\ ~aborted

\* The engine was called for an external path requested on FILE, and by
\* LoadExtensionWithManifest for an internal path requested on IO.
C5_Witness ==
  \E i, j \in Calls :
    /\ IsLoadRequest(i) /\ req[i].from = TID_FILE
    /\ \E k \in At(i, "engine") : hist[i][k].fn = "LoadExtension"
    /\ IsLoadRequest(j) /\ req[j].from = TID_IO
    /\ \E k \in At(j, "engine") : hist[j][k].fn = "LoadExtensionWithManifest"

(***************************************************************************)
(* C6. Within one manifest load the stages come in the order read, parse,  *)
(* deliver: the file is read once and its content parsed at most once,     *)
(* both on the FILE thread only; the continuation runs on UI only, after   *)
(* the read (and the parse, if there is one) of that load, and nothing of  *)
(* the load follows it. No read happens on UI or IO.                       *)
(***************************************************************************)
C6_StageOrder ==
  \A i \in Calls :
    /\ \A k \in At(i, "read") \cup At(i, "parse") : hist[i][k].ctx = TID_FILE
    /\ \A k \in At(i, "callback") : hist[i][k].ctx = TID_UI
    /\ Cardinality(At(i, "read")) <= 1
    /\ Cardinality(At(i, "parse")) <= 1
    /\ \A p \in At(i, "parse") : \E r \in At(i, "read") : r = p - 1
    /\ \A r \in At(i, "read") :
         (At(i, "parse") # {})
           <=> (hist[i][r].arg.res.ok /\ hist[i][r].arg.res.contents # "")
    /\ \A k \in At(i, "callback") :
         /\ UsesLoader(i) => \E r \in At(i, "read") : r < k
         /\ \A n \in At(i, "read") \cup At(i, "parse") \cup At(i, "LOG") : n < k

\* A load requested on UI went through all the stages: the file was read and
\* parsed on FILE and the dictionary was delivered on UI.
C6_Witness ==
  \E i \in Calls :
    /\ req[i].from = TID_UI
    /\ \E r \in At(i, "read"), p \in At(i, "parse"), k \in At(i, "callback") :
         /\ r < p /\ p < k
         /\ hist[i][k].arg.manifest.type = "VTYPE_DICTIONARY"

(***************************************************************************)
(* C7. LoadExtension (UI), GetInternalManifest (FILE), RunManifestCallback *)
(* (UI) and AddInternalExtensionToResourceManager (IO) each run their body *)
(* inside the call, posting nothing, when entered on their thread; entered *)
(* on any other thread they post exactly one task for themselves to their  *)
(* thread and return: the body is not run by the call, and the call does   *)
(* not wait for the task, which is still queued when the call has          *)
(* returned.                                                               *)
(***************************************************************************)
\* The thread a function tests for with CefCurrentlyOn.
Target(fn) ==
  CASE fn = "LoadExtension" -> TID_UI
    [] fn = "GetInternalManifest" -> TID_FILE
    [] fn = "RunManifestCallback" -> TID_UI
    [] fn = "AddInternalExtensionToResourceManager" -> TID_IO

\* The steps a function's body can start with.
BodyStart(fn) ==
  CASE fn = "LoadExtension" -> {"enter", "engine"}
    [] fn = "GetInternalManifest" -> {"read"}
    [] fn = "RunManifestCallback" -> {"callback"}
    [] fn = "AddInternalExtensionToResourceManager" ->
         {"AddProvider", "GetResourceDir"}

\* The tasks of call i bound to fn that wait in the queue of thread c.
QueuedFor(i, fn, c) ==
  {n \in 1..Len(queue[c]) : queue[c][n].req = i /\ queue[c][n].fn = fn}

C7_RunOn ==
  \A i \in Calls : \A k \in At(i, "enter") :
    LET e == hist[i][k]
        T == Target(e.fn)
    IN  /\ k < Len(hist[i])
        /\ LET n == hist[i][k + 1]
           IN  IF e.ctx = T
               THEN /\ n.ctx = T /\ n.ev \in BodyStart(e.fn)
                    /\ n.ev = "enter" => n.fn # e.fn
                    /\ \A c \in Ctx : QueuedFor(i, e.fn, c) = {}
               ELSE /\ n.ev = "post" /\ n.fn = e.fn /\ n.ctx = e.ctx
                    /\ n.arg.to = T
                    /\ IF k + 1 = Len(hist[i])
                       THEN /\ Cardinality(QueuedFor(i, e.fn, T)) = 1
                            /\ \A c \in Ctx \ {T} : QueuedFor(i, e.fn, c) = {}
                       ELSE /\ hist[i][k + 2].ev = "enter"
                            /\ hist[i][k + 2].fn = e.fn
                            /\ hist[i][k + 2].ctx = T

\* Each of the four functions was entered off its thread and on it.
C7_Witness ==
  \A fn \in {"LoadExtension", "GetInternalManifest", "RunManifestCallback",
             "AddInternalExtensionToResourceManager"} :
    /\ \E i \in Calls : \E k \in Entered(i, fn) : hist[i][k].ctx # Target(fn)
    /\ \E i \in Calls : \E k \in Entered(i, fn) : hist[i][k].ctx = Target(fn)

(***************************************************************************)
(* C8. Tasks posted from one thread to one target thread run in the order  *)
(* of their posting, each to completion before the next begins: the k-th   *)
(* task run of those posted from o to c is the k-th one posted, and the    *)
(* ones still queued wait in the order of their posting. (Between tasks    *)
(* posted from different threads the claim promises no order, which leaves *)
(* nothing to hold.)                                                       *)
(***************************************************************************)
\* The stamps of the tasks from thread o that wait in the queue of thread c.
QueuedFrom(o, c) ==
  LET I == {n \in 1..Len(queue[c]) : queue[c][n].origin = o}
  IN  [k \in 1..Cardinality(I) |->
         queue[c][CHOOSE n \in I : Cardinality({m \in I : m <= n}) = k].stamp]

C8_FIFO ==
  \A o \in Ctx, c \in Ctx :
    /\ \A k \in 1..Len(ran[o][c]) : ran[o][c][k] = k
    /\ \A k \in 1..Len(QueuedFrom(o, c)) :
         QueuedFrom(o, c)[k] = Len(ran[o][c]) + k
    /\ Len(ran[o][c]) + Len(QueuedFrom(o, c)) = nposted[o][c]

\* Two tasks from one thread to one target have run while two tasks posted
\* from one thread wait together in a queue.
C8_Witness ==
  /\ \E o \in Ctx, c \in Ctx : Len(ran[o][c]) = 2
  /\ \E o \in Ctx, c \in Ctx : Len(QueuedFrom(o, c)) = 2

(***************************************************************************)
(* C9. AddProvider and AddDirectoryProvider are called on the IO thread    *)
(* only. A call of AddInternalExtensionToResourceManager on UI or FILE     *)
(* takes no step on the registry in the calling thread: it posts itself to *)
(* IO and returns, and the provider is added by the posted task, on IO.    *)
(***************************************************************************)
IsRegistration(i) ==
  i \in Calls /\ req[i].fn = "AddInternalExtensionToResourceManager"

\* The positions in the history of call i where a provider was added.
Registered(i) == At(i, "AddProvider") \cup At(i, "AddDirectoryProvider")

C9_RegistryOnIO ==
  /\ \A n \in 1..Len(registry) : registry[n].ctx = TID_IO
  /\ \A i \in Calls :
       /\ \A k \in Registered(i) : hist[i][k].ctx = TID_IO
       /\ (IsRegistration(i) /\ req[i].from # TID_IO) =>
            /\ \A k \in 1..Len(hist[i]) :
                 hist[i][k].ctx = req[i].from =>
                   \/ k = 1 /\ hist[i][k].ev = "enter"
                   \/ k = 2 /\ hist[i][k].ev = "post"
                           /\ hist[i][k].arg.to = TID_IO
            /\ \A k \in Registered(i) :
                 k > 3 /\ hist[i][3].ev = "enter" /\ hist[i][3].ctx = TID_IO

\* Providers were added for a call made on UI and for a call made on FILE.
C9_Witness ==
  \E i, j \in Calls :
    /\ IsRegistration(i) /\ req[i].from = TID_UI /\ Registered(i) # {}
    /\ IsRegistration(j) /\ req[j].from = TID_FILE /\ Registered(j) # {}
    /\ Len(registry) = 2

(***************************************************************************)
(* C10. Each completed registration of an internal extension adds exactly  *)
(* one provider, also when the call was re-posted from another thread, and *)
(* none when the resource directory cannot be resolved: with origin        *)
(* chrome-extension://<id>/, priority 50 and an empty order key, and with  *)
(* root extensions/<internal path> for the provider that reads from the    *)
(* binary (OS_WIN) but <resource directory>/extensions/<internal path> for *)
(* the directory provider (OS_POSIX). Providers are never deduplicated:    *)
(* the registry holds an entry as many times as it was registered.         *)
(***************************************************************************)
\* The internal path of the registered paths, written out.
ExpectedInternalPath(p) ==
  IF p[1] = "r" THEN set_page_color ELSE set_page_color \o <<"/", "s">>

\* The call reached GetResourceDir and got a directory, or needs none.
Resolvable(i) ==
  os_win \/ \E k \in At(i, "GetResourceDir") : hist[i][k].arg.ok

\* The registry entry of call i, with the given root.
EntryOf(i, root) ==
  [kind |-> IF os_win THEN "AddProvider" ELSE "AddDirectoryProvider",
   origin |-> <<"c", "h", "r", "o", "m", "e", "-", "e", "x", "t", "e", "n",
                "s", "i", "o", "n", ":", "/", "/">> \o req[i].id \o <<"/">>,
   root |-> root, priority |-> 50, order |-> <<>>, ctx |-> TID_IO]

\* extensions/<internal path>
RelativeRoot(i) ==
  <<"e", "x", "t", "e", "n", "s", "i", "o", "n", "s", "/">>
  \o ExpectedInternalPath(req[i].path)

\* The root the code gives: below the resource directory on OS_POSIX.
PlatformRoot(i) ==
  IF os_win THEN RelativeRoot(i) ELSE <<"d", "/">> \o RelativeRoot(i)

\* Every registration adds one entry when it is completed and resolvable,
\* none before, and the registry holds each entry as often as it was added.
OneEntryPerRegistration(Entry(_)) ==
  /\ \A i \in Calls :
       IsRegistration(i) =>
         Cardinality(Registered(i)) =
           (IF ~Pending(i) /\ Resolvable(i) THEN 1 ELSE 0)
  /\ \A e \in {registry[n] : n \in 1..Len(registry)}
              \cup {Entry(i) : i \in {j \in Calls : Registered(j) # {}}} :
       Cardinality({n \in 1..Len(registry) : registry[n] = e})
         = Cardinality({i \in Calls : Registered(i) # {} /\ Entry(i) = e})

C10_OneEntryPerRegistration ==
  OneEntryPerRegistration(LAMBDA i : EntryOf(i, PlatformRoot(i)))

\* The claim as written: the root is extensions/<internal path> on every
\* platform.
C10_RootIsRelative ==
  OneEntryPerRegistration(LAMBDA i : EntryOf(i, RelativeRoot(i)))

\* Two registrations of one extension, one of them re-posted from UI, left
\* two equal directory providers in the registry.
C10_Witness ==
  /\ ~os_win
  /\ Len(registry) = 2 /\ registry[1] = registry[2]
  /\ \E i \in Calls : IsRegistration(i) /\ req[i].from = TID_UI
  /\ \A i \in Calls : ~Pending(i)

(***************************************************************************)
(* C11. A registration for a path that is not internal fails fast on the   *)
(* calling thread, whatever that thread is: the call ends at the failed    *)
(* check of the precondition, before any re-post, so no task is posted to  *)
(* IO for it and no provider is added for it.                              *)
(***************************************************************************)
\* Call i registers a path that IsInternalExtension rejects.
BreaksPrecondition(i) ==
  IsRegistration(i) /\ ~IsInternalExtension(req[i].path)

C11_FailFast ==
  \A i \in Calls :
    BreaksPrecondition(i) =>
      /\ Len(hist[i]) = 2
      /\ hist[i][2].ev = "DCHECK" /\ hist[i][2].ctx = req[i].from
      /\ At(i, "post") = {}
      /\ Registered(i) = {}
      /\ aborted

\* In a build without DCHECKs a registration made on UI for a path that is not
\* internal was posted to IO and added a provider there.
C11_Witness ==
  \E i \in Calls :
    /\ BreaksPrecondition(i) /\ req[i].from = TID_UI
    /\ At(i, "DCHECK") = {}
    /\ \E k \in At(i, "post") : hist[i][k].arg.to = TID_IO
    /\ \E k \in Registered(i) : hist[i][k].ctx = TID_IO
    /\ Len(registry) = 1

(***************************************************************************)
(* C12. A registration that finds the resource directory unresolvable ends *)
(* there without a fault: the step that takes it leaves the registry as it *)
(* was, posts no task (no retry) and leaves no task of the call behind.    *)
(***************************************************************************)
\* In the histories h, call i got nothing from GetResourceDir.
SkippedIn(h, i) ==
  /\ i \in 1..Len(h)
  /\ \E k \in 1..Len(h[i]) :
       h[i][k].ev = "GetResourceDir" /\ ~h[i][k].arg.ok

C12_SkipLeavesRegistry ==
  [][\A i \in 1..MaxReq :
       (SkippedIn(hist', i) /\ ~SkippedIn(hist, i)) =>
         /\ hist'[i][Len(hist'[i])].ev = "GetResourceDir"
         /\ registry' = registry
         /\ nposted' = nposted
         /\ \A c \in Ctx : \A k \in 1..Len(queue'[c]) : queue'[c][k].req # i
         /\ ~aborted']_vars

\* A registration re-posted from UI was skipped after another one had added
\* its provider, which is still the only one.
C12_Witness ==
  \E i, j \in Calls :
    /\ SkippedIn(hist, i) /\ req[i].from = TID_UI
    /\ Registered(j) # {} /\ j < i
    /\ Len(registry) = 1

(***************************************************************************)
(* C13. For every allowlisted name n and every suffix s, the paths         *)
(* root + n and root + n + "/" + s are internal, root being the resources  *)
(* path or empty.                                                          *)
(***************************************************************************)
AllowlistedNames == {extensions[i] : i \in 1..Len(extensions)}

\* The calls of fn among the calls of the functions without effects.
PureCalls(fn) == {k \in 1..Len(pure) : pure[k].fn = fn}

\* name is n or n + "/" + s for an allowlisted n.
BelowAllowlisted(name) ==
  \E n \in AllowlistedNames : name = n \/ StartsWith(name, n \o <<"/">>)

C13_AllowlistedIsInternal ==
  \A k \in PureCalls("IsInternalExtension") :
    (/\ pure[k].arg.prefix \in {<<>>, GetResourcesPath}
     /\ BelowAllowlisted(pure[k].arg.name))
      => pure[k].ret = TRUE

\* On Windows a path below the resources path, with a backslash for its
\* suffix, was found internal.
C13_Witness ==
  \E k \in PureCalls("IsInternalExtension") :
    /\ os_win /\ GetResourcesPath # <<>>
    /\ pure[k].arg.prefix = GetResourcesPath
    /\ pure[k].arg.name = set_page_color \o <<"/", "\\">>
    /\ pure[k].ret = TRUE

(***************************************************************************)
(* C14. A path is internal only if what is left of it, once one leading    *)
(* resources path is taken off and (on Windows) backslashes are read as    *)
(* slashes, is an allowlisted name or starts with one followed by "/". So  *)
(* prefix + m, with a name m that has no allowlisted first segment and     *)
(* does not begin with the resources path, is external when the prefix is  *)
(* empty or the resources path, but internal when the prefix itself        *)
(* supplies the allowlisted segment. A name that only starts with an       *)
(* allowlisted name, and the empty path, are external.                     *)
(***************************************************************************)
\* c separates path segments on the platform's reading of internal paths.
IsSeparator(c) == c = "/" \/ (os_win /\ c = "\\")

\* s is an allowlisted name, or starts with one that a separator follows.
HasAllowlistedFirstSegment(s) ==
  \E n \in AllowlistedNames :
    /\ Len(s) >= Len(n)
    /\ \A i \in 1..Len(n) : s[i] = n[i]
    /\ Len(s) > Len(n) => IsSeparator(s[Len(n) + 1])

\* path without one leading resources path.
PastResources(path) ==
  LET root == GetResourcesPath
  IN  IF /\ root # <<>> /\ Len(path) >= Len(root)
         /\ \A i \in 1..Len(root) : path[i] = root[i]
      THEN [i \in 1..(Len(path) - Len(root)) |-> path[i + Len(root)]]
      ELSE path

C14_InternalOnlyBelowAllowlisted ==
  \A k \in PureCalls("IsInternalExtension") :
    LET prefix == pure[k].arg.prefix
        m == pure[k].arg.name
    IN  /\ pure[k].ret = HasAllowlistedFirstSegment(PastResources(prefix \o m))
        /\ (/\ prefix \in {<<>>, GetResourcesPath}
            /\ ~HasAllowlistedFirstSegment(m)
            /\ PastResources(m) = m)
             => pure[k].ret = FALSE
        /\ (/\ prefix \in {<<>>, GetResourcesPath}
            /\ m \in {<<>>, set_page_color \o <<"X">>})
             => pure[k].ret = FALSE

\* The claim as written: whatever the prefix, prefix + m is external unless
\* m has an allowlisted first segment.
C14_ExternalForAnyPrefix ==
  \A k \in PureCalls("IsInternalExtension") :
    ~HasAllowlistedFirstSegment(pure[k].arg.name) => pure[k].ret = FALSE

\* The prefix set_page_color made the name /X internal.
C14_Witness ==
  \E k \in PureCalls("IsInternalExtension") :
    /\ pure[k].arg.prefix = set_page_color
    /\ pure[k].arg.name = <<"/", "X">>
    /\ pure[k].ret = TRUE

(***************************************************************************)
(* C15. GetInternalExtensionResourcePath applied to its own result without *)
(* the "extensions/" gives that result again: taking off the resources     *)
(* path and normalizing the separators twice is the same as once.          *)
(***************************************************************************)
C15_Idempotent ==
  (/\ Len(pure) = 2
   /\ pure[1].fn = "GetInternalExtensionResourcePath"
   /\ pure[2].fn = "GetInternalExtensionResourcePath"
   /\ pure[2].arg = PastExtensions(pure[1].ret))
    => pure[2].ret = pure[1].ret

\* On OS_POSIX a path that holds the resources path twice lost it once in
\* the first call and once more in the second.
C15_Witness ==
  /\ ~os_win /\ Len(pure) = 2
  /\ pure[1].fn = "GetInternalExtensionResourcePath"
  /\ pure[1].arg = <<"r", "/", "r", "/">> \o set_page_color
  /\ pure[1].ret = extensions_slash \o <<"r", "/">> \o set_page_color
  /\ pure[2].arg = <<"r", "/">> \o set_page_color
  /\ pure[2].ret = extensions_slash \o set_page_color

(***************************************************************************)
(* C16. Every OnContextInitialized, OnBeforeChildProcessLaunch and         *)
(* OnRenderProcessThreadCreated calls the method of the same name exactly  *)
(* once on every delegate and on nothing else; OnBeforeCommandLineProcess- *)
(* ing does so when the process type is empty (the browser process), and   *)
(* calls no delegate and leaves the command line alone otherwise. The      *)
(* delegates are those of the construction in every state: every event     *)
(* handled so far went to exactly the delegates the set holds now.         *)
(***************************************************************************)
LifecycleEvents ==
  {"OnBeforeCommandLineProcessing", "OnContextInitialized",
   "OnBeforeChildProcessLaunch", "OnRenderProcessThreadCreated"}

\* The delegates as a set.
DelegateSet == {delegates_[n] : n \in 1..Len(delegates_)}

\* Event e called its method once on every delegate, and made no other call.
ToEveryDelegateOnce(e) ==
  /\ Len(e.notified) = Cardinality(DelegateSet)
  /\ \A d \in DelegateSet :
       Cardinality({n \in 1..Len(e.notified) :
                      /\ e.notified[n].delegate = d
                      /\ e.notified[n].method = e.name}) = 1

C16_BroadcastToAll ==
  /\ delegates_ \in DelegateOrders
  /\ \A k \in 1..Len(events) :
       LET e == events[k]
       IN  e.name \in LifecycleEvents =>
             IF e.name = "OnBeforeCommandLineProcessing"
                /\ e.process_type # ""
             THEN e.notified = <<>> /\ e.command_line \in CommandLines
             ELSE ToEveryDelegateOnce(e)

\* The claim as written: every one of the four events goes to every delegate.
C16_EveryEventToAll ==
  \A k \in 1..Len(events) :
    events[k].name \in LifecycleEvents => ToEveryDelegateOnce(events[k])

\* With two delegates, OnBeforeCommandLineProcessing went to both for the
\* browser process and to none for a renderer process.
C16_Witness ==
  /\ Len(delegates_) = 2 /\ Len(events) = 2
  /\ \A k \in 1..2 : events[k].name = "OnBeforeCommandLineProcessing"
  /\ events[1].process_type = "" /\ Len(events[1].notified) = 2
  /\ events[2].process_type = "renderer" /\ events[2].notified = <<>>

(***************************************************************************)
(* C17. GetExtensionURL returns "chrome-extension://" + id + "/" +         *)
(* default_popup when "browser_action" of the manifest is a dictionary     *)
(* whose "default_popup" is a non-empty string, and GetExtensionURL and    *)
(* GetExtensionIconPath return the empty string when the manifest is {} or *)
(* has no "browser_action".                                                *)
(***************************************************************************)
\* The non-empty string manifest.browser_action[key], if there is one.
ActionStrings(manifest, key) ==
  {f.str : f \in {f \in UNION {e.dict : e \in {e \in manifest :
                      /\ e.key = "browser_action"
                      /\ e.type = "VTYPE_DICTIONARY"}} :
                    f.key = key /\ f.type = "VTYPE_STRING" /\ f.str # <<>>}}

NoBrowserAction(manifest) == \A e \in manifest : e.key # "browser_action"

C17_PopupURL ==
  /\ \A k \in PureCalls("GetExtensionURL") :
       /\ \A default_popup \in
              ActionStrings(pure[k].arg.manifest, "default_popup") :
            pure[k].ret = chrome_extension \o pure[k].arg.id \o <<"/">>
                            \o default_popup
       /\ NoBrowserAction(pure[k].arg.manifest) => pure[k].ret = <<>>
  /\ \A k \in PureCalls("GetExtensionIconPath") :
       NoBrowserAction(pure[k].arg.manifest) => pure[k].ret.ret = <<>>

\* {"browser_action":{"default_popup":"popup.html"}} with the identifier
\* abc123 gave chrome-extension://abc123/popup.html.
C17_Witness ==
  \E k \in PureCalls("GetExtensionURL") :
    /\ pure[k].arg.id = abc123
    /\ pure[k].arg.manifest =
         {DictEntry("browser_action",
                    {StringEntry("default_popup", popup_html)})}
    /\ pure[k].ret = chrome_extension \o abc123 \o <<"/">> \o popup_html

(***************************************************************************)
(* C18. Only internal paths go through the manifest loader. A LoadExtension *)
(* request for an external path posts nothing to the FILE thread, never    *)
(* enters the loader and reads no manifest, and its engine call has a null *)
(* manifest; made on UI, the request consists of that engine call, inside  *)
(* the call. For an internal path every engine call comes, in the history  *)
(* of the request, after a task posted from UI to FILE and after a task    *)
(* posted from FILE back to UI: a request made on UI makes no engine call  *)
(* inside the call.                                                        *)
(***************************************************************************)
\* The positions where call i posted a task from thread o to thread c.
Hops(i, o, c) ==
  {k \in At(i, "post") : hist[i][k].ctx = o /\ hist[i][k].arg.to = c}

C18_OnlyInternalUsesLoader ==
  \A i \in Calls :
    IsLoadRequest(i) =>
      IF IsInternalExtension(req[i].path)
      THEN \A k \in At(i, "engine") :
             /\ hist[i][k].fn = "LoadExtensionWithManifest"
             /\ \E f \in Hops(i, TID_UI, TID_FILE) :
                \E u \in Hops(i, TID_FILE, TID_UI) : f < u /\ u < k
      ELSE /\ \A k \in At(i, "post") : hist[i][k].arg.to # TID_FILE
           /\ ~UsesLoader(i)
           /\ At(i, "read") = {} /\ At(i, "parse") = {}
           /\ \A k \in At(i, "engine") :
                /\ hist[i][k].fn = "LoadExtension"
                /\ hist[i][k].arg.manifest = NullPtr
           /\ req[i].from = TID_UI =>
                /\ Len(hist[i]) = 2
                /\ hist[i][2].ev = "engine" /\ hist[i][2].ctx = TID_UI
                /\ Cardinality(EngineCallsOf(i)) = 1

\* Of two requests made on UI, the one for an external path has made its
\* engine call with nothing posted, and the one for an internal path has
\* made it after the hop to FILE and the hop back.
C18_Witness ==
  \E i, j \in Calls :
    /\ IsLoadRequest(i) /\ req[i].from = TID_UI
    /\ ~IsInternalExtension(req[i].path)
    /\ At(i, "engine") # {} /\ At(i, "post") = {}
    /\ IsLoadRequest(j) /\ req[j].from = TID_UI
    /\ IsInternalExtension(req[j].path)
    /\ At(j, "engine") # {}
    /\ Hops(j, TID_UI, TID_FILE) # {} /\ Hops(j, TID_FILE, TID_UI) # {}

(***************************************************************************)
(* C19. Every engine call made for an internal load request has the path   *)
(* of that request and the manifest that the read of that same request     *)
(* gave: the request read the manifest resource of its path, namely        *)
(* "extensions/" + internal path + "/manifest.json", exactly once, and the *)
(* continuation and the engine got the dictionary read there, or null if   *)
(* the read gave none, whatever other requests are in flight. Two requests *)
(* for the same path read twice, and each gets what its own read gave.     *)
(***************************************************************************)
\* The manifest the loader hands on for the result res of LoadBinaryResource.
ManifestIn(res) ==
  IF NoManifestIn(res)
  THEN NullPtr
  ELSE [type |-> "VTYPE_DICTIONARY", json |-> res.contents]

\* The resource that holds the manifest of the extension at path p.
ManifestResource(p) ==
  extensions_slash \o GetInternalPath(p) \o <<"/">> \o manifest_json

C19_OwnManifest ==
  \A n \in 1..Len(loaded) :
    LET i == loaded[n].req
    IN  (IsLoadRequest(i) /\ IsInternalExtension(req[i].path)) =>
          /\ loaded[n].path = req[i].path
          /\ Cardinality(At(i, "read")) = 1
          /\ \A r \in At(i, "read") :
               /\ hist[i][r].arg.path = ManifestResource(req[i].path)
               /\ loaded[n].manifest = ManifestIn(hist[i][r].arg.res)
               /\ \A k \in At(i, "callback") :
                    hist[i][k].arg.manifest = ManifestIn(hist[i][r].arg.res)

\* Two requests for the same internal path were in flight together, the
\* later one overtook the earlier one, and the engine got a dictionary for
\* the one whose read gave one and null for the one whose read failed.
C19_Witness ==
  \E i, j \in Calls : \E n, m \in 1..Len(loaded) :
    /\ i < j /\ m < n
    /\ IsLoadRequest(i) /\ IsLoadRequest(j)
    /\ req[i].path = req[j].path /\ IsInternalExtension(req[i].path)
    /\ loaded[n].req = i /\ loaded[m].req = j
    /\ loaded[n].manifest.type = "VTYPE_DICTIONARY"
    /\ loaded[m].manifest = NullPtr
    /\ \E r \in At(j, "read") : ~hist[j][r].arg.res.ok

(***************************************************************************)
(* C20. Of two LoadExtension requests for internal paths made on the UI    *)
(* thread, the engine call of the earlier one comes first: the engine is   *)
(* never called for the later request before it was called for the earlier *)
(* one. Both take the same hops, UI to FILE and FILE to UI, and the queues *)
(* keep the order of the tasks posted from one thread. (A request made on  *)
(* another thread takes one hop more and can be overtaken.)                *)
(***************************************************************************)
IsInternalRequestOnUI(i) ==
  /\ IsLoadRequest(i) /\ req[i].from = TID_UI
  /\ IsInternalExtension(req[i].path)

C20_RequestOrder ==
  \A i, j \in Calls :
    (i < j /\ IsInternalRequestOnUI(i) /\ IsInternalRequestOnUI(j)) =>
      \A m \in EngineCallsOf(j) : \E n \in EngineCallsOf(i) : n < m

\* Two internal requests made on UI were both loaded, the earlier one after
\* a read and a parse and the later one after a read that failed.
C20_Witness ==
  \E i, j \in Calls :
    /\ i < j /\ IsInternalRequestOnUI(i) /\ IsInternalRequestOnUI(j)
    /\ At(i, "parse") # {}
    /\ \E r \in At(j, "read") : ~hist[j][r].arg.res.ok
    /\ \E n \in EngineCallsOf(i), m \in EngineCallsOf(j) : n < m

====
